---- MODULE Spec2Model ----
(***************************************************************************)
(* Model of the runtime feature-flag store of packages/flags:              *)
(* createFlagStore (store.ts), its rollout evaluator and hash, the flag    *)
(* types (types.ts) and the server helpers (server.ts).                    *)
(*                                                                         *)
(* JavaScript strings are sequences of one-character strings, so that      *)
(* charCodeAt, toUpperCase and replace are computed character by           *)
(* character.  JavaScript values are tagged records (see Bool, Num, Str).  *)
(* Objects are functions whose DOMAIN is the set of own properties.        *)
(***************************************************************************)
EXTENDS Integers, Sequences, FiniteSets, TLC

VARIABLES
  definitions,         \* createFlagStore's argument: the registry
  processEnv,          \* process.env, the external configuration
  overrides,           \* store.ts:94  the Map of runtime overrides
  currentEnvironment,  \* store.ts:97
  last,                \* the last call made on the store and its outcome
  otherStore,          \* the closure of a second createFlagStore call
  running,             \* the call of getAllFlags that is on the stack
  memo                 \* the useMemo cell of a mounted hook (React hooks)

\* What lives outside the closure of the store
outside == <<otherStore, running, memo>>

vars ==
  <<definitions, processEnv, overrides, currentEnvironment, last, outside>>

---------------------------------------------------------------------------
(* JavaScript values *)

Bool(b) == [type |-> "boolean", b |-> b, n |-> 0, s |-> <<>>]
Num(n) == [type |-> "number", b |-> FALSE, n |-> n, s |-> <<>>]
Str(s) == [type |-> "string", b |-> FALSE, n |-> 0, s |-> s]
NaN == [type |-> "number", b |-> FALSE, n |-> 0, s |-> <<"N", "a", "N">>]
Undefined == [type |-> "undefined", b |-> FALSE, n |-> 0, s |-> <<>>]
\* a function object, such as the members every object inherits
FunctionObject == [type |-> "function", b |-> FALSE, n |-> 0, s |-> <<>>]

\* typeof v
TypeOf(v) == v.type

\* Boolean(v): false for false, 0, NaN, "" and undefined
Truthy(v) ==
  CASE v.type = "boolean" -> v.b
    [] v.type = "number" -> v # NaN /\ v.n # 0
    [] v.type = "string" -> v.s # <<>>
    [] v.type = "undefined" -> FALSE
    [] OTHER -> TRUE

---------------------------------------------------------------------------
(* Characters *)

LowerCase ==
  <<"a", "b", "c", "d", "e", "f", "g", "h", "i", "j", "k", "l", "m",
    "n", "o", "p", "q", "r", "s", "t", "u", "v", "w", "x", "y", "z">>
UpperCase ==
  <<"A", "B", "C", "D", "E", "F", "G", "H", "I", "J", "K", "L", "M",
    "N", "O", "P", "Q", "R", "S", "T", "U", "V", "W", "X", "Y", "Z">>
Digits == <<"0", "1", "2", "3", "4", "5", "6", "7", "8", "9">>

IsIn(seq, c) == \E i \in 1..Len(seq) : seq[i] = c
IndexOf(seq, c) == CHOOSE i \in 1..Len(seq) : seq[i] = c

Characters ==
  {LowerCase[i] : i \in 1..Len(LowerCase)}
    \cup {UpperCase[i] : i \in 1..Len(UpperCase)}
    \cup {Digits[i] : i \in 1..Len(Digits)}
    \cup {"-", ".", ":", "@", "_"}

\* The UTF-16 code of each character the model uses
CharCodes ==
  [c \in Characters |->
     CASE IsIn(LowerCase, c) -> 96 + IndexOf(LowerCase, c)
       [] IsIn(UpperCase, c) -> 64 + IndexOf(UpperCase, c)
       [] IsIn(Digits, c) -> 47 + IndexOf(Digits, c)
       [] c = "-" -> 45
       [] c = "." -> 46
       [] c = ":" -> 58
       [] c = "@" -> 64
       [] c = "_" -> 95]

\* String.prototype.charCodeAt, one character
CharCode(c) == CharCodes[c]

UpperOf ==
  [c \in Characters |->
     IF IsIn(LowerCase, c) THEN UpperCase[IndexOf(LowerCase, c)] ELSE c]

\* String.prototype.toUpperCase, one character
ToUpperChar(c) == UpperOf[c]

toUpperCase(s) == [i \in 1..Len(s) |-> ToUpperChar(s[i])]

\* s.replace(/-/g, "_")
replaceHyphens(s) == [i \in 1..Len(s) |-> IF s[i] = "-" THEN "_" ELSE s[i]]

---------------------------------------------------------------------------
(* hashToPercentage, store.ts:25-33 *)

\* 31 * hash + char wrapped to a signed 32-bit integer, computed on 16-bit
\* halves so that no intermediate value leaves the 32-bit range
Wrap31(hash, char) ==
  LET lo == hash % 65536
      hi == (hash \div 65536) % 65536
      lo2 == 31 * lo + char
      hi2 == (31 * hi + (lo2 \div 65536)) % 65536
      shi == IF hi2 >= 32768 THEN hi2 - 65536 ELSE hi2
  IN  shi * 65536 + (lo2 % 65536)

\* One round of the loop: hash = (hash << 5) - hash + char, then hash & hash
\* (ToInt32)
HashStep(hash, char) ==
  CHOOSE next \in {Wrap31(h, char) : h \in {hash}} : TRUE

RECURSIVE HashLoop(_, _, _)
HashLoop(input, i, hash) ==
  IF i > Len(input) THEN hash
  ELSE HashLoop(input, i + 1, HashStep(hash, CharCode(input[i])))

\* Mutant: hash % 100 without Math.abs
Rem100(hash) ==
  IF hash >= 0 THEN hash % 100 ELSE 0 - ((100 - (hash % 100)) % 100)

\* Math.abs(hash % 100): JavaScript's % takes the sign of the dividend
AbsRem100(hash) ==
  IF hash >= 0 THEN hash % 100 ELSE (100 - (hash % 100)) % 100

\* Mutant: hash is not reset to 0 and starts from what an earlier call left
hashToPercentageStale(input) ==
  AbsRem100(HashLoop(input, 1,
                     IF last.op = "getFlag" THEN Len(last.flagName) ELSE 0))

hashToPercentage(input) == AbsRem100(HashLoop(input, 1, 0))

---------------------------------------------------------------------------
(* Objects and results *)

\* Members every plain object inherits from Object.prototype: obj[key]
\* finds them when obj has no own property key.
ObjectPrototype ==
  { <<"c", "o", "n", "s", "t", "r", "u", "c", "t", "o", "r">>,
    <<"t", "o", "S", "t", "r", "i", "n", "g">> }

\* obj[key] on a plain object: an own property, else an inherited member,
\* else undefined
Lookup(obj, key) ==
  IF key \in DOMAIN obj THEN obj[key]
  ELSE IF key \in ObjectPrototype THEN FunctionObject
  ELSE Undefined

\* obj.field for a field name no object inherits
Field(obj, field) == IF field \in DOMAIN obj THEN obj[field] ELSE Undefined

\* context?.field, a string or undefined
ContextField(context, field) ==
  IF context = Undefined THEN Undefined
  ELSE IF field \in DOMAIN context THEN Str(context[field])
  ELSE Undefined

\* a ?? b
Coalesce(a, b) == IF a = Undefined THEN b ELSE a

\* list?.includes(identifier), undefined (falsy) when the list is absent
Includes(rollout, list, identifier) ==
  /\ list \in DOMAIN rollout
  /\ \E i \in 1..Len(rollout[list]) : Str(rollout[list][i]) = identifier

\* FlagEvaluationResult, types.ts
Return(value, reason, flagName) ==
  [kind |-> "return", value |-> value, reason |-> reason, flagName |-> flagName]

\* throw new Error(`Unknown flag: ${flagName}`), store.ts:149
UnknownFlag(flagName) ==
  [kind |-> "throw", error |-> "Unknown flag", flagName |-> flagName]

Null == [kind |-> "null"]

---------------------------------------------------------------------------
(* evaluateRollout, store.ts:38-87 *)

\* Mutant: a context without identifier is bucketed under a fixed name
identifierOfAnonymous(context) ==
  Coalesce(Coalesce(Coalesce(ContextField(context, "userId"),
                             ContextField(context, "organizationId")),
                    ContextField(context, "email")),
           Str(<<"a", "n", "o", "n">>))

\* Mutant: || in place of ??, an empty userId falls through to the next field
identifierOfTruthy(context) ==
  LET userId == ContextField(context, "userId")
      organizationId == ContextField(context, "organizationId")
  IN  IF Truthy(userId) THEN userId
      ELSE IF Truthy(organizationId) THEN organizationId
      ELSE ContextField(context, "email")

\* store.ts:46-47
identifierOf(context) ==
  Coalesce(Coalesce(ContextField(context, "userId"),
                    ContextField(context, "organizationId")),
           ContextField(context, "email"))

\* Mutant: the enabled value is true whatever the flag's type
enabledValueAlwaysTrue(flagDef) == Bool(TRUE)

\* store.ts:61-63 and 75-77
enabledValue(flagDef) ==
  IF TypeOf(Field(flagDef, "defaultValue")) = "boolean" THEN Bool(TRUE)
  ELSE Field(flagDef, "defaultValue")

\* `${flagName}:${identifier}`
bucketOf(flagName, identifier) ==
  hashToPercentage(flagName \o <<":">> \o identifier.s)

\* Mutant: the allowlist is checked before the blocklist
evaluateRolloutAllowFirst(flagDef, flagName, context) ==
  IF "rollout" \notin DOMAIN flagDef THEN Null
  ELSE
    LET rollout == flagDef.rollout
        identifier == identifierOf(context)
    IN  IF Truthy(identifier) /\ Includes(rollout, "allowlist", identifier)
        THEN Return(enabledValue(flagDef), "allowlist", flagName)
        ELSE IF Truthy(identifier) /\ Includes(rollout, "blocklist", identifier)
        THEN Return(Field(flagDef, "defaultValue"), "blocklist", flagName)
        ELSE IF Truthy(identifier)
                /\ bucketOf(flagName, identifier) < rollout.percentage
        THEN Return(enabledValue(flagDef), "rollout", flagName)
        ELSE Null

\* Mutant: the blocklist is only checked after the percentage
evaluateRolloutBlockLast(flagDef, flagName, context) ==
  IF "rollout" \notin DOMAIN flagDef THEN Null
  ELSE
    LET rollout == flagDef.rollout
        identifier == identifierOf(context)
    IN  IF Truthy(identifier) /\ Includes(rollout, "allowlist", identifier)
        THEN Return(enabledValue(flagDef), "allowlist", flagName)
        ELSE IF Truthy(identifier)
                /\ bucketOf(flagName, identifier) < rollout.percentage
        THEN Return(enabledValue(flagDef), "rollout", flagName)
        ELSE IF Truthy(identifier) /\ Includes(rollout, "blocklist", identifier)
        THEN Return(Field(flagDef, "defaultValue"), "blocklist", flagName)
        ELSE Null

\* Mutant: the allowlist is skipped, only the percentage admits
evaluateRolloutNoAllowlist(flagDef, flagName, context) ==
  IF "rollout" \notin DOMAIN flagDef THEN Null
  ELSE
    LET rollout == flagDef.rollout
        identifier == identifierOf(context)
    IN  IF Truthy(identifier) /\ Includes(rollout, "blocklist", identifier)
        THEN Return(Field(flagDef, "defaultValue"), "blocklist", flagName)
        ELSE IF Truthy(identifier)
                /\ bucketOf(flagName, identifier) < rollout.percentage
        THEN Return(enabledValue(flagDef), "rollout", flagName)
        ELSE Null

\* Mutant: the comparison of bucket and percentage is turned around
evaluateRolloutInverted(flagDef, flagName, context) ==
  IF "rollout" \notin DOMAIN flagDef THEN Null
  ELSE
    LET rollout == flagDef.rollout
        identifier == identifierOf(context)
    IN  IF Truthy(identifier) /\ Includes(rollout, "blocklist", identifier)
        THEN Return(Field(flagDef, "defaultValue"), "blocklist", flagName)
        ELSE IF Truthy(identifier) /\ Includes(rollout, "allowlist", identifier)
        THEN Return(enabledValue(flagDef), "allowlist", flagName)
        ELSE IF Truthy(identifier)
                /\ bucketOf(flagName, identifier) >= rollout.percentage
        THEN Return(enabledValue(flagDef), "rollout", flagName)
        ELSE Null

\* Mutant: the percentage is never consulted
evaluateRolloutListsOnly(flagDef, flagName, context) ==
  IF "rollout" \notin DOMAIN flagDef THEN Null
  ELSE
    LET rollout == flagDef.rollout
        identifier == identifierOf(context)
    IN  IF Truthy(identifier) /\ Includes(rollout, "blocklist", identifier)
        THEN Return(Field(flagDef, "defaultValue"), "blocklist", flagName)
        ELSE IF Truthy(identifier) /\ Includes(rollout, "allowlist", identifier)
        THEN Return(enabledValue(flagDef), "allowlist", flagName)
        ELSE Null

evaluateRollout(flagDef, flagName, context) ==
  IF "rollout" \notin DOMAIN flagDef THEN Null
  ELSE
    LET rollout == flagDef.rollout
        identifier == identifierOf(context)
    IN  IF Truthy(identifier) /\ Includes(rollout, "blocklist", identifier)
        THEN Return(Field(flagDef, "defaultValue"), "blocklist", flagName)
        ELSE IF Truthy(identifier) /\ Includes(rollout, "allowlist", identifier)
        THEN Return(enabledValue(flagDef), "allowlist", flagName)
        ELSE IF Truthy(identifier)
                /\ bucketOf(flagName, identifier) < rollout.percentage
        THEN Return(enabledValue(flagDef), "rollout", flagName)
        ELSE Null

---------------------------------------------------------------------------
(* getFlag, store.ts:140-204 *)

\* Mutant: an override of another type than the default value is skipped
runtimeOverrideChecked(flagName) ==
  IF /\ flagName \in DOMAIN overrides
     /\ flagName \in DOMAIN definitions
     /\ TypeOf(overrides[flagName]) = TypeOf(definitions[flagName].defaultValue)
  THEN Return(overrides[flagName], "override", flagName)
  ELSE Null

\* 1. runtime override, store.ts:153-159
runtimeOverride(flagName) ==
  IF flagName \in DOMAIN overrides
  THEN Return(overrides[flagName], "override", flagName)
  ELSE Null

\* Mutant: the hyphens are kept
envKeyOfUpperOnly(flagName) == <<"F", "L", "A", "G", "_">> \o toUpperCase(flagName)

\* store.ts:163
envKeyOf(flagName) ==
  <<"F", "L", "A", "G", "_">> \o replaceHyphens(toUpperCase(flagName))

IsDigits(s) == \A i \in 1..Len(s) : IsIn(Digits, s[i])

RECURSIVE DigitsValue(_)
DigitsValue(s) ==
  IF s = <<>> THEN 0
  ELSE 10 * DigitsValue(SubSeq(s, 1, Len(s) - 1))
       + (IndexOf(Digits, s[Len(s)]) - 1)

\* Number(text) for texts of letters, digits and "-": the empty text is 0,
\* an optionally signed run of digits is its value, anything else is NaN
ToNumber(s) ==
  IF s = <<>> THEN Num(0)
  ELSE IF IsDigits(s) THEN Num(DigitsValue(s))
  ELSE IF s[1] = "-" /\ Len(s) > 1 /\ IsDigits(Tail(s))
  THEN Num(0 - DigitsValue(Tail(s)))
  ELSE NaN

\* Mutant: a boolean flag is true for every non-empty text but "false"
parseEnvValueLoose(flagDef, envValue) ==
  IF TypeOf(Field(flagDef, "defaultValue")) = "boolean"
  THEN Bool(envValue # <<>> /\ envValue # <<"f", "a", "l", "s", "e">>)
  ELSE IF TypeOf(Field(flagDef, "defaultValue")) = "number"
  THEN ToNumber(envValue)
  ELSE Str(envValue)

\* store.ts:167-174
parseEnvValue(flagDef, envValue) ==
  IF TypeOf(Field(flagDef, "defaultValue")) = "boolean"
  THEN Bool(envValue = <<"t", "r", "u", "e">> \/ envValue = <<"1">>)
  ELSE IF TypeOf(Field(flagDef, "defaultValue")) = "number"
  THEN ToNumber(envValue)
  ELSE Str(envValue)

\* 2. environment variable override, store.ts:161-180
envVarOverride(flagDef, flagName) ==
  IF envKeyOf(flagName) \in DOMAIN processEnv
  THEN Return(parseEnvValue(flagDef, processEnv[envKeyOf(flagName)]),
              "override", flagName)
  ELSE Null

\* Mutant: the entry is tested for truthiness, a false or 0 entry is skipped
environmentValueTruthy(flagDef, flagName) ==
  LET envSpecificValue ==
        IF "environments" \in DOMAIN flagDef
        THEN Lookup(flagDef.environments, currentEnvironment)
        ELSE Undefined
  IN  IF Truthy(envSpecificValue)
      THEN Return(envSpecificValue, "environment", flagName)
      ELSE Null

\* Mutant: the label is read from NODE_ENV at each call
environmentValueInitial(flagDef, flagName) ==
  LET label ==
        IF <<"N", "O", "D", "E", "_", "E", "N", "V">> \in DOMAIN processEnv
        THEN processEnv[<<"N", "O", "D", "E", "_", "E", "N", "V">>]
        ELSE <<"d", "e", "v", "e", "l", "o", "p", "m", "e", "n", "t">>
      envSpecificValue ==
        IF "environments" \in DOMAIN flagDef
        THEN Lookup(flagDef.environments, label)
        ELSE Undefined
  IN  IF envSpecificValue # Undefined
      THEN Return(envSpecificValue, "environment", flagName)
      ELSE Null

\* 3. environment-specific value, store.ts:182-190
environmentValue(flagDef, flagName) ==
  LET envSpecificValue ==
        IF "environments" \in DOMAIN flagDef
        THEN Lookup(flagDef.environments, currentEnvironment)
        ELSE Undefined
  IN  IF envSpecificValue # Undefined
      THEN Return(envSpecificValue, "environment", flagName)
      ELSE Null

\* a || b on results: the first that is not null
OrElse(a, b) == IF a # Null THEN a ELSE b

\* Mutant: the environments entry is that of context.environment when the
\* context names one
getFlagWithContextEnvironment(flagDef, flagName, context) ==
  LET named == /\ context # Undefined
               /\ "environment" \in DOMAIN context
               /\ "environments" \in DOMAIN flagDef
               /\ context.environment \in DOMAIN flagDef.environments
  IN  OrElse(runtimeOverride(flagName),
      OrElse(envVarOverride(flagDef, flagName),
      OrElse(IF named
             THEN Return(flagDef.environments[context.environment],
                         "environment", flagName)
             ELSE environmentValue(flagDef, flagName),
      OrElse(evaluateRollout(flagDef, flagName, context),
             Return(Field(flagDef, "defaultValue"), "default", flagName)))))

\* store.ts:152-203, the tiers once the definition is found
getFlagWith(flagDef, flagName, context) ==
  OrElse(runtimeOverride(flagName),
  OrElse(envVarOverride(flagDef, flagName),
  OrElse(environmentValue(flagDef, flagName),
  OrElse(evaluateRollout(flagDef, flagName, context),
         Return(Field(flagDef, "defaultValue"), "default", flagName)))))

getFlag(flagName, context) ==
  LET flagDef == Lookup(definitions, flagName)
  IN  IF flagDef = Undefined THEN UnknownFlag(flagName)
      ELSE getFlagWith(flagDef, flagName, context)

\* store.ts:209-214: the value, or the error of getFlag
getFlagValue(flagName, context) ==
  LET result == getFlag(flagName, context)
  IN  IF result.kind = "throw" THEN result
      ELSE [kind |-> "return", value |-> result.value]

\* Mutant: the names with an override are listed too
getAllFlagsAndOverrides(context) ==
  [kind |-> "return",
   value |-> [flagName \in DOMAIN definitions \cup DOMAIN overrides |->
                IF flagName \in DOMAIN overrides THEN overrides[flagName]
                ELSE getFlagValue(flagName, context).value]]

\* store.ts:219-227: one value per own key of the registry
getAllFlags(context) ==
  [kind |-> "return",
   value |-> [flagName \in DOMAIN definitions |->
                getFlagValue(flagName, context).value]]

\* Mutant: enabled only when the value is the boolean true
isEnabledStrict(flagName, context) ==
  LET result == getFlagValue(flagName, context)
  IN  IF result.kind = "throw" THEN result
      ELSE [kind |-> "return", value |-> result.value = Bool(TRUE)]

\* store.ts:232-238
isEnabled(flagName, context) ==
  LET result == getFlagValue(flagName, context)
  IN  IF result.kind = "throw" THEN result
      ELSE [kind |-> "return", value |-> Truthy(result.value)]

\* store.ts:109-111
getEnvironment == [kind |-> "return", value |-> currentEnvironment]

\* store.ts:243-245
getDefinitions == [kind |-> "return", value |-> definitions]

---------------------------------------------------------------------------
(* The inputs: a registry, process environments, contexts, call arguments *)

beta == <<"b", "e", "t", "a">>
maxItems == <<"m", "a", "x", "-", "i", "t", "e", "m", "s">>
uiTheme == <<"u", "i", "T", "h", "e", "m", "e">>
newDashboard == <<"n", "e", "w", "D", "a", "s", "h", "b", "o", "a", "r", "d">>
ghost == <<"g", "h", "o", "s", "t">>
constructor == <<"c", "o", "n", "s", "t", "r", "u", "c", "t", "o", "r">>

development == <<"d", "e", "v", "e", "l", "o", "p", "m", "e", "n", "t">>
staging == <<"s", "t", "a", "g", "i", "n", "g">>
production == <<"p", "r", "o", "d", "u", "c", "t", "i", "o", "n">>

u1 == <<"u", "1">>
u2 == <<"u", "2">>
u3 == <<"u", "3">>
u4 == <<"u", "4">>
o1 == <<"o", "1">>
mail == <<"a", "@", "b">>

\* rollout.percentage of the registry's flags
Percentages == {0, 60, 100}

\* A registry as a caller of createFlagStore writes it (compare
\* flagDefinitions): a boolean flag with every optional part, a number
\* flag with an allowlist only, a string flag with a default only, and
\* newDashboard as flagDefinitions has it.
Registry(percentage) ==
  beta :> [defaultValue |-> Bool(FALSE),
           rollout |-> [percentage |-> percentage,
                        allowlist |-> <<u1, u2, <<>>>>,
                        blocklist |-> <<u2, u3, <<>>>>],
           environments |-> (staging :> Bool(TRUE) @@ production :> Bool(FALSE))]
  @@ maxItems :> [defaultValue |-> Num(10),
                  rollout |-> [percentage |-> percentage,
                               allowlist |-> <<u1, <<>>>>],
                  environments |-> (production :> Num(20))]
  @@ uiTheme :> [defaultValue |-> Str(<<"a">>)]
  @@ newDashboard :> [defaultValue |-> Bool(FALSE),
                      rollout |-> [percentage |-> percentage,
                                   allowlist |-> <<>>],
                      environments |-> (development :> Bool(TRUE))]

NODE_ENV == <<"N", "O", "D", "E", "_", "E", "N", "V">>
FLAG_BETA == <<"F", "L", "A", "G", "_", "B", "E", "T", "A">>
FLAG_MAX_ITEMS ==
  <<"F", "L", "A", "G", "_", "M", "A", "X", "_", "I", "T", "E", "M", "S">>
FLAG_UITHEME == <<"F", "L", "A", "G", "_", "U", "I", "T", "H", "E", "M", "E">>
FLAG_UI_THEME ==
  <<"F", "L", "A", "G", "_", "U", "I", "_", "T", "H", "E", "M", "E">>
FLAG_GHOST == <<"F", "L", "A", "G", "_", "G", "H", "O", "S", "T">>

\* The process environments a store is created and evaluated in
ProcessEnvs ==
  { <<>>,
    NODE_ENV :> production @@ FLAG_BETA :> <<"t", "r", "u", "e">>
      @@ FLAG_MAX_ITEMS :> <<"4", "2">> @@ FLAG_GHOST :> <<"t", "r", "u", "e">>,
    FLAG_BETA :> <<"y", "e", "s">> @@ FLAG_MAX_ITEMS :> <<"a", "b", "c">>
      @@ FLAG_UI_THEME :> <<"b">> }

\* FlagContext, types.ts; Undefined is the omitted argument
Contexts ==
  { Undefined,
    <<>>,
    [userId |-> u1],
    [userId |-> u2],
    [userId |-> u3, email |-> u1],
    [userId |-> u4, environment |-> staging],
    [organizationId |-> o1, email |-> u1],
    [email |-> mail],
    [environment |-> staging],
    [userId |-> <<>>, organizationId |-> u1] }

\* Flag names callers pass: the registered ones and two that are not
FlagNames == {beta, maxItems, uiTheme, ghost, constructor}

\* Values setOverride is called with, by flag name
OverrideValues(flagName) ==
  CASE flagName = beta -> {Bool(TRUE), Bool(FALSE)}
    [] flagName = maxItems -> {Num(0), Str(<<"a", "b", "c">>)}
    [] OTHER -> {Bool(TRUE)}

\* Names setOverride and clearOverride are called with
OverrideNames == {beta, maxItems, ghost}

\* Labels setEnvironment is called with
EnvironmentLabels == {development, staging, production, constructor}

---------------------------------------------------------------------------
(* The store: createFlagStore, store.ts:92-259 *)

\* No second store
NoStore == [created |-> FALSE]

\* No call on the stack
NoCall == [op |-> "idle"]

\* No hook mounted
NotMounted == [mounted |-> FALSE]

\* The store is used alone, by calls that return before the next starts
Alone ==
  /\ otherStore = NoStore
  /\ running = NoCall
  /\ memo = NotMounted

\* store.ts:94-97
Init ==
  /\ definitions \in {Registry(p) : p \in Percentages}
  /\ processEnv \in ProcessEnvs
  /\ overrides = <<>>
  /\ currentEnvironment =
       IF NODE_ENV \in DOMAIN processEnv THEN processEnv[NODE_ENV]
       ELSE development
  /\ last = [op |-> "createFlagStore"]
  /\ Alone

\* Mutant: the map holds the new entry only
MapSetOnly(map, key, value) == [k \in {key} |-> value]

\* Map.prototype.set
MapSet(map, key, value) ==
  [k \in DOMAIN map \cup {key} |-> IF k = key THEN value ELSE map[k]]

\* Mutant: the entry is kept
MapDeleteKeeps(map, key) == map

\* Map.prototype.delete
MapDelete(map, key) == [k \in DOMAIN map \ {key} |-> map[k]]

\* store.ts:102-104
SetEnvironment(env) ==
  /\ currentEnvironment' = env
  /\ last' = [op |-> "setEnvironment", env |-> env]
  /\ UNCHANGED <<definitions, processEnv, overrides, outside>>

\* getFlag for every context, as the caller of a mutator saw it before
Snapshot(flagName) == [c \in Contexts |-> getFlag(flagName, c)]

\* Mutant: the Map of overrides is one for all stores of the module
SetOverrideShared(flagName, value) ==
  /\ overrides' = MapSet(overrides, flagName, value)
  /\ last' = [op |-> "setOverride", flagName |-> flagName, value |-> value,
              had |-> flagName \in DOMAIN overrides,
              before |-> Snapshot(flagName)]
  /\ otherStore' =
       IF otherStore.created
       THEN [otherStore EXCEPT
               !.overrides = MapSet(otherStore.overrides, flagName, value)]
       ELSE otherStore
  /\ UNCHANGED <<definitions, processEnv, currentEnvironment, running, memo>>

\* store.ts:116-121
SetOverride(flagName, value) ==
  /\ overrides' = MapSet(overrides, flagName, value)
  /\ last' = [op |-> "setOverride", flagName |-> flagName, value |-> value,
              had |-> flagName \in DOMAIN overrides,
              before |-> Snapshot(flagName)]
  /\ UNCHANGED <<definitions, processEnv, currentEnvironment, outside>>

\* store.ts:126-128; op is the name the caller used (clearOverride, or
\* FlagAdmin.reset of server.ts:179-181, which only forwards)
ClearOverrideAs(op, flagName) ==
  /\ overrides' = MapDelete(overrides, flagName)
  /\ last' = [op |-> op, flagName |-> flagName,
              afterSet |-> /\ last.op = "setOverride"
                           /\ last.flagName = flagName
                           /\ ~last.had,
              before |-> IF last.op = "setOverride" /\ last.flagName = flagName
                         THEN last.before ELSE <<>>]
  /\ UNCHANGED <<definitions, processEnv, currentEnvironment, outside>>

ClearOverride(flagName) == ClearOverrideAs("clearOverride", flagName)

\* server.ts:179-181
FlagAdminReset(flagName) == ClearOverrideAs("FlagAdmin.reset", flagName)

\* store.ts:133-135
ClearAllOverrides ==
  /\ overrides' = <<>>
  /\ last' = [op |-> "clearAllOverrides"]
  /\ UNCHANGED <<definitions, processEnv, currentEnvironment, outside>>

\* Whether the last call was this same call of getFlag
SameCall(flagName, context) ==
  /\ last.op = "getFlag"
  /\ last.flagName = flagName
  /\ last.context = context

\* Mutant: getFlag keeps the value it returned as an override
GetFlagMemo(flagName, context) ==
  /\ last' = [op |-> "getFlag", flagName |-> flagName, context |-> context,
              outcome |-> getFlag(flagName, context),
              again |-> SameCall(flagName, context),
              previous |-> IF SameCall(flagName, context) THEN last.outcome
                           ELSE Null]
  /\ overrides' =
       IF getFlag(flagName, context).kind = "return"
       THEN MapSet(overrides, flagName, getFlag(flagName, context).value)
       ELSE overrides
  /\ UNCHANGED <<definitions, processEnv, currentEnvironment, outside>>

\* A call of getFlag: it returns or throws, and assigns nothing.  The
\* record keeps the outcome of the call before it when that was the same
\* call (again, previous).
GetFlag(flagName, context) ==
  /\ last' = [op |-> "getFlag", flagName |-> flagName, context |-> context,
              outcome |-> getFlag(flagName, context),
              again |-> SameCall(flagName, context),
              previous |-> IF SameCall(flagName, context) THEN last.outcome
                           ELSE Null]
  /\ UNCHANGED <<definitions, processEnv, overrides, currentEnvironment,
               outside>>

Next ==
  \/ \E env \in EnvironmentLabels : SetEnvironment(env)
  \/ \E flagName \in OverrideNames :
       \E value \in OverrideValues(flagName) : SetOverride(flagName, value)
  \/ \E flagName \in OverrideNames : ClearOverride(flagName)
  \/ \E flagName \in OverrideNames : FlagAdminReset(flagName)
  \/ ClearAllOverrides
  \/ \E flagName \in FlagNames : \E context \in Contexts :
       GetFlag(flagName, context)

Spec == Init /\ [][Next]_vars

---------------------------------------------------------------------------
(* The store with every read it exports, store.ts:247-258 *)

\* A read other than getFlag: it returns or throws, and assigns nothing
Read(op, args, outcome) ==
  /\ last' = [op |-> op, args |-> args, outcome |-> outcome]
  /\ UNCHANGED <<definitions, processEnv, overrides, currentEnvironment,
               outside>>

GetFlagValue(flagName, context) ==
  Read("getFlagValue", <<flagName, context>>, getFlagValue(flagName, context))

GetAllFlags(context) == Read("getAllFlags", <<context>>, getAllFlags(context))

IsEnabled(flagName, context) ==
  Read("isEnabled", <<flagName, context>>, isEnabled(flagName, context))

GetEnvironment == Read("getEnvironment", <<>>, getEnvironment)

GetDefinitions == Read("getDefinitions", <<>>, getDefinitions)

\* Contexts the reads are called with
ReadContexts ==
  {Undefined, [userId |-> u1], [userId |-> u4, environment |-> staging]}

\* Flag names the reads are called with
ReadFlagNames == FlagNames \cup {newDashboard}

InitReads == Init /\ definitions[beta].rollout.percentage = 60

NextReads ==
  \/ \E env \in EnvironmentLabels : SetEnvironment(env)
  \/ \E flagName \in OverrideNames :
       \E value \in OverrideValues(flagName) : SetOverride(flagName, value)
  \/ \E flagName \in OverrideNames : ClearOverride(flagName)
  \/ ClearAllOverrides
  \/ \E flagName \in ReadFlagNames : \E context \in ReadContexts :
       GetFlag(flagName, context)
  \/ \E flagName \in ReadFlagNames : \E context \in ReadContexts :
       GetFlagValue(flagName, context)
  \/ \E flagName \in ReadFlagNames : \E context \in ReadContexts :
       IsEnabled(flagName, context)
  \/ \E context \in ReadContexts : GetAllFlags(context)
  \/ GetEnvironment
  \/ GetDefinitions

SpecReads == InitReads /\ [][NextReads]_vars

---------------------------------------------------------------------------
(* The store under varied external configuration, store.ts:161-180 *)

FLAG_NEWDASHBOARD == <<"F", "L", "A", "G", "_", "N", "E", "W", "D", "A", "S", "H", "B", "O", "A", "R", "D">>
FLAG_NEW_DASHBOARD == <<"F", "L", "A", "G", "_", "N", "E", "W", "_", "D", "A", "S", "H", "B", "O", "A", "R", "D">>

\* Keys set in process.env
ConfigKeys ==
  {FLAG_BETA, FLAG_MAX_ITEMS, FLAG_UITHEME, FLAG_UI_THEME, FLAG_NEWDASHBOARD,
   FLAG_NEW_DASHBOARD}

\* Texts they are set to
ConfigTexts ==
  { <<"t", "r", "u", "e">>, <<"1">>, <<>>, <<"T", "R", "U", "E">>, <<"y", "e", "s">>, <<"4", "2">>, <<"-", "5">>, <<"a", "b", "c">> }

\* process.env with no key, or with one key set
ConfigEnvs == {<<>>} \cup {key :> text : key \in ConfigKeys, text \in ConfigTexts}

ConfigContexts == {Undefined, [userId |-> u1], [userId |-> u4]}

InitConfig ==
  /\ definitions = Registry(60)
  /\ processEnv \in ConfigEnvs
  /\ overrides = <<>>
  /\ currentEnvironment = development
  /\ last = [op |-> "createFlagStore"]
  /\ Alone

NextConfig ==
  \/ \E env \in {development, production} : SetEnvironment(env)
  \/ \E value \in OverrideValues(maxItems) : SetOverride(maxItems, value)
  \/ ClearOverride(maxItems)
  \/ \E flagName \in ReadFlagNames : \E context \in ConfigContexts :
       GetFlag(flagName, context)

SpecConfig == InitConfig /\ [][NextConfig]_vars

---------------------------------------------------------------------------
(* The store with newDashboard among the flags asked for, as the default   *)
(* store of the package has it *)

RolloutFlagNames == FlagNames \cup {newDashboard}

InitRollout == Init /\ processEnv = <<>>

NextRollout ==
  \/ \E env \in {development, staging, production} : SetEnvironment(env)
  \/ \E value \in {Bool(TRUE), Bool(FALSE)} : SetOverride(newDashboard, value)
  \/ ClearOverride(newDashboard)
  \/ \E flagName \in RolloutFlagNames : \E context \in Contexts :
       GetFlag(flagName, context)

SpecRollout == InitRollout /\ [][NextRollout]_vars

---------------------------------------------------------------------------
(* hashToPercentage on its own, store.ts:25-33 *)

\* Pieces the input strings are put together from
HashParts ==
  { <<>>, <<"a">>, <<"z", "z">>, <<":">>, <<"Z", "9", "_">>, beta, maxItems,
    u1, mail, newDashboard,
    <<"p", "o", "l", "y", "g", "e", "n", "e">>,
    <<"l", "u", "b", "r", "i", "c", "a", "n", "t", "s">> }

HashInputs == {a \o b : a, b \in HashParts}

InitHash ==
  /\ definitions = <<>>
  /\ processEnv = <<>>
  /\ overrides = <<>>
  /\ currentEnvironment = development
  /\ last \in {[op |-> "input", input |-> input] : input \in HashInputs}
  /\ Alone

\* A call of hashToPercentage
HashToPercentage ==
  /\ last.op = "input"
  /\ last' = [op |-> "hashToPercentage", input |-> last.input,
              outcome |-> hashToPercentage(last.input),
              again |-> FALSE, previous |-> hashToPercentage(last.input)]
  /\ UNCHANGED <<definitions, processEnv, overrides, currentEnvironment,
               outside>>

\* The same call once more
HashToPercentageAgain ==
  /\ last.op = "hashToPercentage"
  /\ ~last.again
  /\ last' = [last EXCEPT !.outcome = hashToPercentage(last.input),
                          !.again = TRUE, !.previous = last.outcome]
  /\ UNCHANGED <<definitions, processEnv, overrides, currentEnvironment,
               outside>>

NextHash == HashToPercentage \/ HashToPercentageAgain

SpecHash == InitHash /\ [][NextHash]_vars

---------------------------------------------------------------------------
(* Two stores made by two calls of createFlagStore, store.ts:92-97: each   *)
(* call has its own overrides and currentEnvironment.  The five store      *)
(* variables are those of the store the caller is calling; otherStore      *)
(* keeps those of the other one.                                           *)

StoresFlagNames == {beta, maxItems, newDashboard}

\* What the reads of the store the caller is calling return
StoreResults ==
  [getFlag |-> [flagName \in StoresFlagNames |->
                  [context \in ReadContexts |-> getFlag(flagName, context)]],
   getAllFlags |-> [context \in ReadContexts |-> getAllFlags(context)],
   getEnvironment |-> getEnvironment]

InitStores ==
  /\ definitions = Registry(60)
  /\ processEnv \in ProcessEnvs
  /\ overrides = <<>>
  /\ currentEnvironment =
       IF NODE_ENV \in DOMAIN processEnv THEN processEnv[NODE_ENV]
       ELSE development
  /\ last = [op |-> "createFlagStore"]
  /\ otherStore = [created |-> TRUE, overrides |-> <<>>,
                   currentEnvironment |-> currentEnvironment,
                   results |-> StoreResults]
  /\ running = NoCall
  /\ memo = NotMounted

\* The caller turns to the other store: its next calls are made on it.
\* The results the store left gave last are kept with it.
TurnToOtherStore ==
  /\ otherStore.created
  /\ overrides' = otherStore.overrides
  /\ currentEnvironment' = otherStore.currentEnvironment
  /\ otherStore' = [created |-> TRUE, overrides |-> overrides,
                    currentEnvironment |-> currentEnvironment,
                    results |-> StoreResults]
  /\ last' = [op |-> "turn", results |-> otherStore.results]
  /\ UNCHANGED <<definitions, processEnv, running, memo>>

NextStores ==
  \/ \E env \in {staging, production} : SetEnvironment(env)
  \/ \E value \in OverrideValues(beta) : SetOverride(beta, value)
  \/ ClearOverride(beta)
  \/ ClearAllOverrides
  \/ \E flagName \in {beta, maxItems} : \E context \in ReadContexts :
       GetFlag(flagName, context)
  \/ TurnToOtherStore

SpecStores == InitStores /\ [][NextStores]_vars

---------------------------------------------------------------------------
(* getAllFlags as its loop runs, store.ts:219-227: one getFlagValue per    *)
(* key of the registry.  The body has no await and calls nothing that      *)
(* yields, so no other call of the store runs until it returns.            *)

\* Object.keys(definitions): the own keys in the order they were written
ObjectKeys(obj) ==
  SelectSeq(<<beta, maxItems, uiTheme, newDashboard>>,
            LAMBDA key : key \in DOMAIN obj)

StoreState == [overrides |-> overrides, currentEnvironment |-> currentEnvironment]

\* Mutant: another call may run while the loop of getAllFlags is running
MayRunAlways == TRUE

\* A call starts only when no call is running: one thread, and every
\* operation of the store runs to completion
MayRun == running.op = "idle"

\* const result = {} and the start of the loop, store.ts:220-223
GetAllFlagsStart(context) ==
  /\ MayRun
  /\ running' = [op |-> "getAllFlags", context |-> context,
                 rest |-> ObjectKeys(definitions), result |-> <<>>,
                 started |-> StoreState]
  /\ last' = [op |-> "call", name |-> "getAllFlags"]
  /\ UNCHANGED <<definitions, processEnv, overrides, currentEnvironment,
               otherStore, memo>>

\* result[flagName] = getFlagValue(flagName, context), store.ts:224
GetAllFlagsStep ==
  /\ running.op = "getAllFlags"
  /\ running.rest # <<>>
  /\ LET flagName == Head(running.rest)
         value == getFlagValue(flagName, running.context)
     IN  IF value.kind = "throw"
         THEN /\ running' = NoCall
              /\ last' = [op |-> "getAllFlags", args |-> <<running.context>>,
                          outcome |-> value, started |-> running.started]
         ELSE /\ running' =
                   [running EXCEPT
                      !.rest = Tail(running.rest),
                      !.result = (flagName :> value.value) @@ running.result]
              /\ last' = [op |-> "step", flagName |-> flagName]
  /\ UNCHANGED <<definitions, processEnv, overrides, currentEnvironment,
               otherStore, memo>>

\* return result, store.ts:226
GetAllFlagsReturn ==
  /\ running.op = "getAllFlags"
  /\ running.rest = <<>>
  /\ running' = NoCall
  /\ last' = [op |-> "getAllFlags", args |-> <<running.context>>,
              outcome |-> [kind |-> "return", value |-> running.result],
              started |-> running.started]
  /\ UNCHANGED <<definitions, processEnv, overrides, currentEnvironment,
               otherStore, memo>>

NextLoop ==
  \/ MayRun /\ \E env \in {staging, production} : SetEnvironment(env)
  \/ MayRun /\ \E flagName \in {beta, maxItems} :
                 \E value \in OverrideValues(flagName) :
                   SetOverride(flagName, value)
  \/ MayRun /\ \E flagName \in {beta, maxItems} : ClearOverride(flagName)
  \/ MayRun /\ ClearAllOverrides
  \/ MayRun /\ \E flagName \in {beta, newDashboard} :
                 \E context \in ReadContexts : GetFlag(flagName, context)
  \/ \E context \in ReadContexts : GetAllFlagsStart(context)
  \/ GetAllFlagsStep
  \/ GetAllFlagsReturn

SpecLoop == InitReads /\ [][NextLoop]_vars

---------------------------------------------------------------------------
(* The server helpers, server.ts, on the default store `flags`             *)

\* UserLike, server.ts:33-37: id, and email and organizationId that may be
\* absent or null.  Undefined is the omitted argument, Null is null.
Users ==
  { Undefined,
    Null,
    [id |-> u1],
    [id |-> u2, email |-> Null, organizationId |-> Null],
    [id |-> u3, email |-> mail],
    [id |-> u4, email |-> mail, organizationId |-> o1],
    [id |-> <<>>, organizationId |-> o1] }

\* user.field ?? undefined is a string: the field is present and not null
HasField(user, field) == field \in DOMAIN user /\ user[field] # Null

\* Mutant: the context is built without userId
buildFlagContextWithoutId(user) ==
  IF user \in {Undefined, Null} THEN <<>>
  ELSE [field \in {f \in {"email", "organizationId"} : HasField(user, f)}
                    \cup {f \in {"environment"} : NODE_ENV \in DOMAIN processEnv}
          |-> IF field = "environment" THEN processEnv[NODE_ENV]
              ELSE user[field]]

\* server.ts:42-51.  A field whose value is undefined is left out of the
\* context: ?? reads both alike.
buildFlagContext(user) ==
  IF user \in {Undefined, Null} THEN <<>>
  ELSE [field \in {"userId"}
                    \cup {f \in {"email", "organizationId"} : HasField(user, f)}
                    \cup {f \in {"environment"} : NODE_ENV \in DOMAIN processEnv}
          |-> CASE field = "userId" -> user.id
                [] field = "environment" -> processEnv[NODE_ENV]
                [] OTHER -> user[field]]

\* server.ts:57-62
getFlagsForUser(user) == getAllFlags(buildFlagContext(user))

\* server.ts:67-73
isFlagEnabledForUser(flagName, user) ==
  isEnabled(flagName, buildFlagContext(user))

\* server.ts:78-84
getFlagForUser(flagName, user) == getFlag(flagName, buildFlagContext(user))

\* throw new Error(`Feature "${flagName}" is not enabled`), server.ts:153
NotEnabled(flagName) ==
  [kind |-> "throw", error |-> "Feature is not enabled", flagName |-> flagName]

Void == [kind |-> "return", value |-> Undefined]

\* Mutant: the flag is evaluated for no user
requireFlagEnabledAnonymous(flagName, user) ==
  LET enabled == isFlagEnabledForUser(flagName, Undefined)
  IN  IF enabled.kind = "throw" THEN enabled
      ELSE IF ~enabled.value THEN NotEnabled(flagName)
      ELSE Void

\* server.ts:148-155: the error of isFlagEnabledForUser, or the error
\* "not enabled", or nothing
requireFlagEnabled(flagName, user) ==
  LET enabled == isFlagEnabledForUser(flagName, user)
  IN  IF enabled.kind = "throw" THEN enabled
      ELSE IF ~enabled.value THEN NotEnabled(flagName)
      ELSE Void

\* A call of a helper: it keeps what the store held when it was called
ServerCall(op, args, outcome) ==
  /\ last' = [op |-> op, args |-> args, outcome |-> outcome,
              before |-> StoreState]
  /\ UNCHANGED <<definitions, processEnv, overrides, currentEnvironment,
               outside>>

GetFlagsForUser(user) ==
  ServerCall("getFlagsForUser", <<user>>, getFlagsForUser(user))

IsFlagEnabledForUser(flagName, user) ==
  ServerCall("isFlagEnabledForUser", <<flagName, user>>,
             isFlagEnabledForUser(flagName, user))

GetFlagForUser(flagName, user) ==
  ServerCall("getFlagForUser", <<flagName, user>>,
             getFlagForUser(flagName, user))

RequireFlagEnabled(flagName, user) ==
  ServerCall("requireFlagEnabled", <<flagName, user>>,
             requireFlagEnabled(flagName, user))

\* server.ts:165-167
FlagAdminEnable(flagName) == SetOverride(flagName, Bool(TRUE))

\* server.ts:172-174
FlagAdminDisable(flagName) == SetOverride(flagName, Bool(FALSE))

\* server.ts:186-188
FlagAdminSetEnvironment(env) == SetEnvironment(env)

\* flagDefinitions with lists that name an organization and an address
ServerRegistry ==
  [Registry(60) EXCEPT ![beta].rollout.allowlist = <<u1, o1>>,
                       ![beta].rollout.blocklist = <<u3, mail>>,
                       ![beta].rollout.percentage = 0,
                       ![newDashboard].rollout.allowlist = <<o1>>]

ServerFlagNames == {beta, maxItems, newDashboard, ghost}

InitServer ==
  /\ definitions = ServerRegistry
  /\ processEnv \in ProcessEnvs
  /\ overrides = <<>>
  /\ currentEnvironment =
       IF NODE_ENV \in DOMAIN processEnv THEN processEnv[NODE_ENV]
       ELSE development
  /\ last = [op |-> "createFlagStore"]
  /\ Alone

NextServer ==
  \/ \E user \in Users : GetFlagsForUser(user)
  \/ \E flagName \in ServerFlagNames : \E user \in Users :
       IsFlagEnabledForUser(flagName, user)
  \/ \E flagName \in ServerFlagNames : \E user \in Users :
       GetFlagForUser(flagName, user)
  \/ \E flagName \in ServerFlagNames : \E user \in Users :
       RequireFlagEnabled(flagName, user)
  \/ \E flagName \in {beta, newDashboard} : FlagAdminEnable(flagName)
  \/ FlagAdminDisable(beta)
  \/ \E flagName \in {beta, newDashboard} : FlagAdminReset(flagName)
  \/ \E env \in {staging, production} : FlagAdminSetEnvironment(env)

SpecServer == InitServer /\ [][NextServer]_vars

---------------------------------------------------------------------------
(* getFlagValue and isEnabled on values of every type, store.ts:209-238    *)

\* Values setOverride is given (value: unknown, store.ts:116)
CoerceValues ==
  {Bool(TRUE), Bool(FALSE), Num(0), Num(7), NaN, Str(<<>>), Str(<<"0">>),
   Undefined}

CoerceFlagNames == {beta, maxItems, uiTheme, ghost}

NextCoerce ==
  \/ \E env \in {staging, production} : SetEnvironment(env)
  \/ \E value \in CoerceValues : SetOverride(uiTheme, value)
  \/ SetOverride(maxItems, Num(0))
  \/ \E flagName \in {maxItems, uiTheme} : ClearOverride(flagName)
  \/ \E flagName \in CoerceFlagNames : \E context \in ReadContexts :
       GetFlag(flagName, context)
  \/ \E flagName \in CoerceFlagNames : \E context \in ReadContexts :
       GetFlagValue(flagName, context)
  \/ \E flagName \in CoerceFlagNames : \E context \in ReadContexts :
       IsEnabled(flagName, context)

SpecCoerce == InitReads /\ [][NextCoerce]_vars

---------------------------------------------------------------------------
(* The React hooks: one component that calls one hook, under a             *)
(* FlagsProvider or without one.  memo is the hook's useMemo cell with the *)
(* provider's state: object is 0 when the provider's context object is the *)
(* one in the cell's dependencies and 1 when setContext or mergeContext    *)
(* has put a new object in its place.                                      *)

Hooks == {"useFlag", "useFlagValue", "useIsEnabled", "useAllFlags"}

HookFlagNames == {beta, newDashboard}

\* FlagsProviderProps.context, and the contexts setContext is given
HookContexts == {<<>>, [userId |-> u1], [userId |-> u4]}

\* The function each hook gives to useMemo
Evaluate(hook, flagName, context) ==
  CASE hook = "useFlag" -> getFlag(flagName, context)
    [] hook = "useFlagValue" -> getFlagValue(flagName, context)
    [] hook = "useIsEnabled" -> isEnabled(flagName, context)
    [] hook = "useAllFlags" -> getAllFlags(context)

\* The dependencies of the hook's useMemo that are props: flagName, and
\* none for useAllFlags
SameProps(hook, flagName) == hook = "useAllFlags" \/ flagName = memo.flagName

\* The first render of the component
Mount(hook, provided, flagName, context) ==
  /\ ~memo.mounted
  /\ provided \/ context = <<>>
  /\ memo' = [mounted |-> TRUE, hook |-> hook, provided |-> provided,
              flagName |-> flagName, context |-> context, object |-> 0,
              value |-> Evaluate(hook, flagName, context)]
  /\ last' = [op |-> "render", hook |-> hook, flagName |-> flagName,
              outcome |-> Evaluate(hook, flagName, context),
              recomputed |-> TRUE]
  /\ UNCHANGED <<definitions, processEnv, overrides, currentEnvironment,
               otherStore, running>>

\* setContext of the provider with a new object
SetContext(context) ==
  /\ memo.mounted
  /\ memo.provided
  /\ memo' = [memo EXCEPT !.context = context, !.object = 1]
  /\ last' = [op |-> "setContext"]
  /\ UNCHANGED <<definitions, processEnv, overrides, currentEnvironment,
               otherStore, running>>

\* {...prev, ...newContext, attributes: {...prev.attributes,
\* ...newContext.attributes}}
Merged(prev, newContext) ==
  [field \in DOMAIN prev \cup DOMAIN newContext \cup {"attributes"} |->
     IF field = "attributes"
     THEN (IF "attributes" \in DOMAIN newContext
           THEN newContext.attributes ELSE <<>>)
          @@ (IF "attributes" \in DOMAIN prev THEN prev.attributes ELSE <<>>)
     ELSE IF field \in DOMAIN newContext THEN newContext[field]
     ELSE prev[field]]

\* mergeContext of the provider: always a new object
MergeContext(newContext) ==
  /\ memo.mounted
  /\ memo.provided
  /\ memo' = [memo EXCEPT !.context = Merged(memo.context, newContext),
                          !.object = 1]
  /\ last' = [op |-> "mergeContext"]
  /\ UNCHANGED <<definitions, processEnv, overrides, currentEnvironment,
               otherStore, running>>

\* Mutant: the hook evaluates at every render
RenderFresh(flagName) ==
  /\ memo.mounted
  /\ memo' = [memo EXCEPT !.flagName = flagName, !.object = 0,
                          !.value = Evaluate(memo.hook, flagName, memo.context)]
  /\ last' = [op |-> "render", hook |-> memo.hook, flagName |-> flagName,
              outcome |-> Evaluate(memo.hook, flagName, memo.context),
              recomputed |-> TRUE]
  /\ UNCHANGED <<definitions, processEnv, overrides, currentEnvironment,
               otherStore, running>>

\* A later render of the component with the prop flagName.  useMemo
\* returns the value of the cell when the dependencies are the same; the
\* context of useFlagsContext without provider is a new {} at every render.
Render(flagName) ==
  /\ memo.mounted
  /\ LET same == /\ memo.provided
                 /\ memo.object = 0
                 /\ SameProps(memo.hook, flagName)
         value == IF same THEN memo.value
                  ELSE Evaluate(memo.hook, flagName, memo.context)
     IN  /\ memo' = [memo EXCEPT !.flagName = flagName, !.object = 0,
                                 !.value = value]
         /\ last' = [op |-> "render", hook |-> memo.hook,
                     flagName |-> flagName, outcome |-> value,
                     recomputed |-> ~same]
  /\ UNCHANGED <<definitions, processEnv, overrides, currentEnvironment,
               otherStore, running>>

InitHooks ==
  /\ definitions = Registry(60)
  /\ processEnv = <<>>
  /\ overrides = <<>>
  /\ currentEnvironment = development
  /\ last = [op |-> "createFlagStore"]
  /\ Alone

NextHooks ==
  \/ \E hook \in Hooks : \E provided \in BOOLEAN :
       \E flagName \in HookFlagNames : \E context \in HookContexts :
         Mount(hook, provided, flagName, context)
  \/ \E context \in HookContexts : SetContext(context)
  \/ \E newContext \in {[userId |-> u4], [environment |-> staging]} :
       MergeContext(newContext)
  \/ \E flagName \in HookFlagNames : Render(flagName)
  \/ \E value \in {Bool(TRUE), Bool(FALSE)} : SetOverride(beta, value)
  \/ ClearOverride(beta)
  \/ \E env \in {staging, production} : SetEnvironment(env)

SpecHooks == InitHooks /\ [][NextHooks]_vars

---------------------------------------------------------------------------
(* Vocabulary of the properties *)

IsGetFlag == last.op = "getFlag"

Registered(flagName) == flagName \in DOMAIN definitions

Reasons ==
  {"override", "environment", "rollout", "allowlist", "blocklist", "default"}

RolloutReasons == {"rollout", "allowlist", "blocklist"}

\* The flag's environments table has an entry for the current environment
HasEnvironmentEntry(flagName) ==
  /\ "environments" \in DOMAIN definitions[flagName]
  /\ currentEnvironment \in DOMAIN definitions[flagName].environments

\* A value for the flag exists in the external configuration
HasExternalConfig(flagName) == envKeyOf(flagName) \in DOMAIN processEnv

\* No tier above the rollout tier produces the flag's result
ReachesRollout(flagName) ==
  /\ Registered(flagName)
  /\ runtimeOverride(flagName) = Null
  /\ envVarOverride(definitions[flagName], flagName) = Null
  /\ environmentValue(definitions[flagName], flagName) = Null

HasRollout(flagName) ==
  Registered(flagName) /\ "rollout" \in DOMAIN definitions[flagName]

\* The context has none of userId, organizationId and email
Anonymous(context) ==
  \/ context = Undefined
  \/ DOMAIN context \cap {"userId", "organizationId", "email"} = {}

\* The identifier the context resolves to is in the named list of the flag
Listed(flagName, list, context) ==
  /\ HasRollout(flagName)
  /\ identifierOf(context) # Undefined
  /\ Includes(definitions[flagName].rollout, list, identifierOf(context))

DefaultOf(flagName) == definitions[flagName].defaultValue

\* true for boolean flags, the default value for the others
EnabledOf(flagName) ==
  IF DefaultOf(flagName).type = "boolean" THEN Bool(TRUE)
  ELSE DefaultOf(flagName)

---------------------------------------------------------------------------
(* C1. getFlag resolves a registered flag by strict precedence: runtime    *)
(* override, then the external-config value, then the environments entry   *)
(* for currentEnvironment, then the rollout evaluator, then defaultValue;  *)
(* with a tier absent the result comes from exactly the next tier.         *)
C1_Precedence ==
  (IsGetFlag /\ Registered(last.flagName)) =>
    LET f == last.flagName
        r == last.outcome
    IN  /\ r.kind = "return"
        /\ IF f \in DOMAIN overrides
           THEN r = Return(overrides[f], "override", f)
           ELSE IF HasExternalConfig(f)
           THEN r.reason = "override"
           ELSE IF HasEnvironmentEntry(f)
           THEN r = Return(definitions[f].environments[currentEnvironment],
                           "environment", f)
           ELSE r = OrElse(evaluateRollout(definitions[f], f, last.context),
                           Return(DefaultOf(f), "default", f))

C3_OverrideRoundTrip ==
  /\ (last.op = "setOverride" /\ Registered(last.flagName)) =>
       \A c \in Contexts :
         getFlag(last.flagName, c)
           = Return(last.value, "override", last.flagName)
  /\ (last.op \in {"clearOverride", "FlagAdmin.reset"} /\ last.afterSet) =>
       \A c \in Contexts : getFlag(last.flagName, c) = last.before[c]

C3_Witness ==
  /\ last.op = "FlagAdmin.reset"
  /\ last.afterSet
  /\ last.flagName = beta
  /\ last.before[[userId |-> u1]].reason = "allowlist"
  /\ getFlag(beta, [userId |-> u1]).reason = "allowlist"

(* C4. getFlag called with a name that is not in the registry raises the   *)
(* UnknownFlag error in every engine state and never returns a result.     *)
C4_UnknownFlagRaises ==
  (IsGetFlag /\ ~Registered(last.flagName)) =>
    last.outcome = UnknownFlag(last.flagName)

(* C5. For a registered flag getFlag never raises and returns a valid      *)
(* EvaluationResult: a context without identifier never gets a rollout     *)
(* result and a missing environments entry never an environment result,    *)
(* they only fall through to a lower tier.                                 *)
C5_NeverRaises ==
  (IsGetFlag /\ Registered(last.flagName)) =>
    /\ last.outcome.kind = "return"
    /\ last.outcome.reason \in Reasons
    /\ last.outcome.value.type \in {"boolean", "number", "string"}
    /\ Anonymous(last.context) => last.outcome.reason \notin RolloutReasons
    /\ ~HasEnvironmentEntry(last.flagName) =>
         last.outcome.reason # "environment"

(* C6, as claimed. A context resolving to an identifier that is in both    *)
(* the allowlist and the blocklist gets {defaultValue, blocklist}.         *)
C6_BlocklistAlways ==
  (/\ IsGetFlag
   /\ Listed(last.flagName, "allowlist", last.context)
   /\ Listed(last.flagName, "blocklist", last.context)) =>
    last.outcome = Return(DefaultOf(last.flagName), "blocklist", last.flagName)

(* C6, amended. When evaluation reaches the rollout tier, a context        *)
(* resolving to a non-empty identifier that is in both lists gets          *)
(* {defaultValue, blocklist}; in no state does it get reason allowlist.    *)
C6_BlocklistOverAllowlist ==
  (/\ IsGetFlag
   /\ Listed(last.flagName, "allowlist", last.context)
   /\ Listed(last.flagName, "blocklist", last.context)) =>
    /\ last.outcome.reason # "allowlist"
    /\ (ReachesRollout(last.flagName) /\ Truthy(identifierOf(last.context))) =>
         last.outcome
           = Return(DefaultOf(last.flagName), "blocklist", last.flagName)

C6_Witness ==
  /\ IsGetFlag
  /\ last.flagName = beta
  /\ last.context = [userId |-> u2]
  /\ last.outcome.reason = "blocklist"

C9_NeitherListAtZero ==
  (/\ IsGetFlag
   /\ HasRollout(last.flagName)
   /\ ReachesRollout(last.flagName)
   /\ identifierOf(last.context) # Undefined
   /\ ~Listed(last.flagName, "allowlist", last.context)
   /\ ~Listed(last.flagName, "blocklist", last.context)
   /\ definitions[last.flagName].rollout.percentage = 0) =>
    last.outcome = Return(DefaultOf(last.flagName), "default", last.flagName)

(* C9, as claimed. At the rollout tier an identifier in the allowlist and  *)
(* not in the blocklist gets {enabledValue, allowlist} at any percentage;  *)
(* an identifier in neither list at percentage 0 gets {defaultValue,       *)
(* default}.                                                               *)
C9_AllowlistResult ==
  /\ (/\ IsGetFlag
      /\ ReachesRollout(last.flagName)
      /\ Listed(last.flagName, "allowlist", last.context)
      /\ ~Listed(last.flagName, "blocklist", last.context)) =>
       last.outcome
         = Return(EnabledOf(last.flagName), "allowlist", last.flagName)
  /\ C9_NeitherListAtZero

(* C9, amended. The same for a non-empty identifier in the allowlist and   *)
(* not in the blocklist; the second half is unchanged.                     *)
C9_AllowlistResultNonEmpty ==
  /\ (/\ IsGetFlag
      /\ ReachesRollout(last.flagName)
      /\ Listed(last.flagName, "allowlist", last.context)
      /\ ~Listed(last.flagName, "blocklist", last.context)
      /\ Truthy(identifierOf(last.context))) =>
       last.outcome
         = Return(EnabledOf(last.flagName), "allowlist", last.flagName)
  /\ C9_NeitherListAtZero

C9_Witness ==
  /\ IsGetFlag
  /\ last.flagName = maxItems
  /\ last.context = [userId |-> u1]
  /\ definitions[maxItems].rollout.percentage = 0
  /\ last.outcome = Return(Num(10), "allowlist", maxItems)

(* C10. Rollout rules never apply to anonymous contexts: with no userId,   *)
(* organizationId and email, or no context at all, getFlag never returns   *)
(* reason rollout, allowlist or blocklist, at any percentage.              *)
C10_AnonymousNeverRollout ==
  (IsGetFlag /\ Anonymous(last.context) /\ last.outcome.kind = "return") =>
    last.outcome.reason \notin RolloutReasons

C10_Witness ==
  /\ IsGetFlag
  /\ last.flagName = beta
  /\ last.context = [environment |-> staging]
  /\ ReachesRollout(beta)
  /\ definitions[beta].rollout.percentage = 100
  /\ last.outcome = Return(Bool(FALSE), "default", beta)

\* The first present of userId, organizationId and email, by the order the
\* specification gives
FirstPresent(context) ==
  IF context = Undefined THEN Undefined
  ELSE IF "userId" \in DOMAIN context THEN Str(context.userId)
  ELSE IF "organizationId" \in DOMAIN context THEN Str(context.organizationId)
  ELSE IF "email" \in DOMAIN context THEN Str(context.email)
  ELSE Undefined

\* The context with only that field left
OnlyFirstPresent(context) ==
  IF context = Undefined THEN <<>>
  ELSE IF "userId" \in DOMAIN context THEN [userId |-> context.userId]
  ELSE IF "organizationId" \in DOMAIN context
  THEN [organizationId |-> context.organizationId]
  ELSE IF "email" \in DOMAIN context THEN [email |-> context.email]
  ELSE <<>>

(* C11. The identifier of the blocklist, allowlist and percentage          *)
(* decisions is the first present of userId, organizationId and email,     *)
(* the empty string counting as present: getFlag returns what it returns   *)
(* for the context with only that field, so the later fields have no       *)
(* effect.                                                                 *)
C11_FirstPresentIdentifier ==
  IsGetFlag =>
    /\ identifierOf(last.context) = FirstPresent(last.context)
    /\ last.outcome = getFlag(last.flagName, OnlyFirstPresent(last.context))

C11_Witness ==
  /\ IsGetFlag
  /\ last.flagName = beta
  /\ last.context = [userId |-> <<>>, organizationId |-> u1]
  /\ ReachesRollout(beta)
  /\ Includes(definitions[beta].rollout, "allowlist", Str(u1))
  /\ last.outcome = Return(Bool(FALSE), "default", beta)

\* The flag's definition with another rollout percentage
WithPercentage(flagName, percentage) ==
  [definitions[flagName] EXCEPT !.rollout.percentage = percentage]

\* Every percentage a rollout can have
AllPercentages == 0..100

(* C12. Rollout monotonicity: when getFlag yields the enabled value for a  *)
(* flag, it also yields it, name, context, lists and engine state being    *)
(* the same, with any greater rollout percentage; a rollout result stays   *)
(* a rollout result.                                                       *)
C12_RolloutMonotone ==
  (/\ IsGetFlag
   /\ HasRollout(last.flagName)
   /\ last.outcome.value = EnabledOf(last.flagName)) =>
    \A p2 \in AllPercentages :
      p2 > definitions[last.flagName].rollout.percentage =>
        LET raised == getFlagWith(WithPercentage(last.flagName, p2),
                                  last.flagName, last.context)
        IN  /\ raised.value = EnabledOf(last.flagName)
            /\ last.outcome.reason = "rollout" => raised = last.outcome

C12_Witness ==
  /\ IsGetFlag
  /\ last.flagName = beta
  /\ last.context = [userId |-> u4, environment |-> staging]
  /\ definitions[beta].rollout.percentage = 60
  /\ last.outcome = Return(Bool(TRUE), "rollout", beta)
  /\ getFlagWith(WithPercentage(beta, 47), beta, last.context).reason
       = "default"

(* C13. hashToPercentage returns an integer from 0 to 99 for every input,  *)
(* the empty string and inputs with a negative hash or the least 32-bit    *)
(* hash included, and the same input gives the same bucket again.          *)
C13_BucketRange ==
  last.op = "hashToPercentage" =>
    /\ last.outcome \in 0..99
    /\ last.again => last.outcome = last.previous

C13_Witness ==
  /\ last.op = "hashToPercentage"
  /\ last.again
  /\ HashLoop(last.input, 1, 0) = (0 - 2147483647) - 1
  /\ last.outcome = 48

(* C14, as claimed. At the rollout tier no identifier gets reason rollout  *)
(* at percentage 0, and at percentage 100 every context with an            *)
(* identifier, the empty string included, that is not blocklisted gets     *)
(* the enabled value.                                                      *)
C14_Endpoints ==
  (IsGetFlag /\ HasRollout(last.flagName) /\ ReachesRollout(last.flagName)) =>
    /\ definitions[last.flagName].rollout.percentage = 0 =>
         last.outcome.reason # "rollout"
    /\ (/\ definitions[last.flagName].rollout.percentage = 100
        /\ identifierOf(last.context) # Undefined
        /\ ~Listed(last.flagName, "blocklist", last.context)) =>
         last.outcome.value = EnabledOf(last.flagName)

(* C14, amended. The same with the second half for contexts whose          *)
(* identifier is a non-empty string.                                       *)
C14_EndpointsNonEmpty ==
  (IsGetFlag /\ HasRollout(last.flagName) /\ ReachesRollout(last.flagName)) =>
    /\ definitions[last.flagName].rollout.percentage = 0 =>
         last.outcome.reason # "rollout"
    /\ (/\ definitions[last.flagName].rollout.percentage = 100
        /\ Truthy(identifierOf(last.context))
        /\ ~Listed(last.flagName, "blocklist", last.context)) =>
         last.outcome.value = EnabledOf(last.flagName)

C14_Witness ==
  /\ IsGetFlag
  /\ last.flagName = newDashboard
  /\ last.context = [email |-> mail]
  /\ ReachesRollout(newDashboard)
  /\ definitions[newDashboard].rollout.percentage = 100
  /\ bucketOf(newDashboard, Str(mail)) = 97
  /\ last.outcome = Return(Bool(TRUE), "rollout", newDashboard)


IsLower(c) == IsIn(LowerCase, c)
IsUpper(c) == IsIn(UpperCase, c)
IsAlphanumeric(c) == IsLower(c) \/ IsUpper(c) \/ IsIn(Digits, c)

\* UPPER_SNAKE_CASE of a name: a word starts at each upper-case letter
\* that follows a lower-case letter or digit, every character that is not
\* alphanumeric becomes "_", and the letters are upper-cased
RECURSIVE upperSnakeCase(_, _)
upperSnakeCase(s, i) ==
  IF i > Len(s) THEN <<>>
  ELSE (IF ~IsAlphanumeric(s[i]) THEN <<"_">>
        ELSE IF i > 1 /\ IsUpper(s[i]) /\ (IsLower(s[i - 1]) \/ IsIn(Digits, s[i - 1]))
        THEN <<"_", s[i]>>
        ELSE <<UpperOf[s[i]]>>)
       \o upperSnakeCase(s, i + 1)

SnakeKey(flagName) == <<"F", "L", "A", "G", "_">> \o upperSnakeCase(flagName, 1)

\* The name upper-cased with each hyphen replaced by "_"
HyphenKey(flagName) ==
  <<"F", "L", "A", "G", "_">>
    \o [i \in 1..Len(flagName) |->
          IF flagName[i] = "-" THEN "_" ELSE UpperOf[flagName[i]]]

\* What getFlag returns from the tiers below the external configuration
BelowExternalConfig(flagName, context) ==
  OrElse(environmentValue(definitions[flagName], flagName),
  OrElse(evaluateRollout(definitions[flagName], flagName, context),
         Return(DefaultOf(flagName), "default", flagName)))

\* A read of a registered flag that has no runtime override
ReadsExternalConfig ==
  IsGetFlag /\ Registered(last.flagName) /\ last.flagName \notin DOMAIN overrides

(* C15, as claimed. The external-config key of a flag is FLAG_ and the     *)
(* name in upper snake case, a camelCase name under its UPPER_SNAKE_CASE   *)
(* form: a text under that key gives the result, and no other key does.    *)
C15_UpperSnakeKey ==
  ReadsExternalConfig =>
    IF SnakeKey(last.flagName) \in DOMAIN processEnv
    THEN last.outcome
           = Return(parseEnvValue(definitions[last.flagName],
                                  processEnv[SnakeKey(last.flagName)]),
                    "override", last.flagName)
    ELSE last.outcome = BelowExternalConfig(last.flagName, last.context)

(* C15, amended. The key is FLAG_ and the name upper-cased with each       *)
(* hyphen replaced by "_", so newDashboard is read from FLAG_NEWDASHBOARD: *)
(* a text under that key gives the result, and no other key does.          *)
C15_UpperHyphenKey ==
  ReadsExternalConfig =>
    IF HyphenKey(last.flagName) \in DOMAIN processEnv
    THEN last.outcome
           = Return(parseEnvValue(definitions[last.flagName],
                                  processEnv[HyphenKey(last.flagName)]),
                    "override", last.flagName)
    ELSE last.outcome = BelowExternalConfig(last.flagName, last.context)

C15_Witness ==
  /\ IsGetFlag
  /\ last.flagName = maxItems
  /\ maxItems \notin DOMAIN overrides
  /\ processEnv = FLAG_MAX_ITEMS :> <<"4", "2">>
  /\ last.outcome = Return(Num(42), "override", maxItems)

\* Number(text) of the texts the external configuration holds
NumberOfText ==
  <<"t", "r", "u", "e">> :> NaN @@ <<"1">> :> Num(1) @@ <<>> :> Num(0)
    @@ <<"T", "R", "U", "E">> :> NaN @@ <<"y", "e", "s">> :> NaN
    @@ <<"4", "2">> :> Num(42) @@ <<"-", "5">> :> Num(0 - 5)
    @@ <<"a", "b", "c">> :> NaN

(* C16. With no runtime override and an external-config text present for   *)
(* the flag, getFlag returns reason override and the text parsed by the    *)
(* type of the default value: for a boolean flag true exactly for "true"   *)
(* and "1", for a number flag Number(text), else the text itself; with the *)
(* key absent the tier is skipped.                                         *)
C16_ExternalConfigParse ==
  ReadsExternalConfig =>
    LET f == last.flagName
        text == processEnv[envKeyOf(f)]
    IN  IF HasExternalConfig(f)
        THEN last.outcome
               = Return(CASE DefaultOf(f).type = "boolean" ->
                               Bool(text \in {<<"t", "r", "u", "e">>, <<"1">>})
                          [] DefaultOf(f).type = "number" -> NumberOfText[text]
                          [] OTHER -> Str(text),
                        "override", f)
        ELSE last.outcome = BelowExternalConfig(f, last.context)

C16_Witness ==
  /\ IsGetFlag
  /\ last.flagName = beta
  /\ beta \notin DOMAIN overrides
  /\ processEnv = FLAG_BETA :> <<"T", "R", "U", "E">>
  /\ last.outcome = Return(Bool(FALSE), "override", beta)

\* The value is not of the flag's declared type
Mismatch(value, flagName) ==
  value.type # DefaultOf(flagName).type \/ value = NaN

(* C17, as claimed. A runtime override or an external-config text that     *)
(* cannot be coerced to the flag's declared type is not returned: getFlag  *)
(* falls back to the next tier, and does not abort.                        *)
C17_TypeMismatchRecovery ==
  (IsGetFlag /\ Registered(last.flagName)) =>
    LET f == last.flagName
    IN  /\ last.outcome.kind = "return"
        /\ (f \in DOMAIN overrides /\ Mismatch(overrides[f], f)) =>
             /\ last.outcome.value # overrides[f]
             /\ last.outcome.reason # "override"
        /\ (/\ f \notin DOMAIN overrides
            /\ HasExternalConfig(f)
            /\ Mismatch(parseEnvValue(definitions[f], processEnv[envKeyOf(f)]),
                        f)) =>
             last.outcome = BelowExternalConfig(f, last.context)

(* C17, amended. No type check is made: a runtime override of another      *)
(* type is returned as it was set, and a text that is no number is         *)
(* returned as NaN for a number flag, both with reason override and        *)
(* without a look at the tiers below; getFlag does not abort.              *)
C17_NoTypeCheck ==
  (IsGetFlag /\ Registered(last.flagName)) =>
    LET f == last.flagName
    IN  /\ last.outcome.kind = "return"
        /\ (f \in DOMAIN overrides /\ Mismatch(overrides[f], f)) =>
             last.outcome = Return(overrides[f], "override", f)
        /\ (/\ f \notin DOMAIN overrides
            /\ HasExternalConfig(f)
            /\ DefaultOf(f).type = "number"
            /\ NumberOfText[processEnv[envKeyOf(f)]] = NaN) =>
             last.outcome = Return(NaN, "override", f)

C17_Witness ==
  /\ IsGetFlag
  /\ last.flagName = maxItems
  /\ overrides = maxItems :> Str(<<"a", "b", "c">>)
  /\ currentEnvironment = production
  /\ last.outcome = Return(Str(<<"a", "b", "c">>), "override", maxItems)


ReadOps ==
  {"getFlag", "getFlagValue", "isEnabled", "getAllFlags", "getEnvironment",
   "getDefinitions"}

OverrideMutators ==
  {"setOverride", "clearOverride", "FlagAdmin.reset", "clearAllOverrides"}

(* C18. Reads have no side effects: a step of getFlag, getFlagValue,       *)
(* isEnabled, getAllFlags, getEnvironment or getDefinitions, returning or  *)
(* raising, leaves overrides, currentEnvironment and the registry as they  *)
(* were; overrides change only in a setOverride, clearOverride or          *)
(* clearAllOverrides step and currentEnvironment only in a setEnvironment  *)
(* step, and nothing else ever changes them.                               *)
C18_ReadsHaveNoEffect ==
  [][/\ last'.op \in ReadOps =>
          /\ overrides' = overrides
          /\ currentEnvironment' = currentEnvironment
          /\ definitions' = definitions
     /\ overrides' # overrides => last'.op \in OverrideMutators
     /\ currentEnvironment' # currentEnvironment => last'.op = "setEnvironment"
     /\ definitions' = definitions]_vars

C18_Witness ==
  /\ last.op = "getFlagValue"
  /\ last.outcome = UnknownFlag(ghost)
  /\ overrides = beta :> Bool(TRUE) @@ ghost :> Bool(TRUE)
  /\ currentEnvironment = staging
  /\ NODE_ENV \notin DOMAIN processEnv

(* C19. Environment tier: with no runtime override and no external-config  *)
(* value, a flag whose environments table has an entry for                 *)
(* currentEnvironment gives {that entry, environment} for every context,   *)
(* also when the entry is false or equals defaultValue; the rollout lists  *)
(* and percentage are not consulted.                                       *)
C19_EnvironmentTier ==
  (/\ IsGetFlag
   /\ Registered(last.flagName)
   /\ last.flagName \notin DOMAIN overrides
   /\ ~HasExternalConfig(last.flagName)
   /\ HasEnvironmentEntry(last.flagName)) =>
    last.outcome
      = Return(definitions[last.flagName].environments[currentEnvironment],
               "environment", last.flagName)

C19_Witness ==
  /\ IsGetFlag
  /\ last.flagName = beta
  /\ last.context = [userId |-> u1]
  /\ currentEnvironment = production
  /\ processEnv = <<>>
  /\ beta \notin DOMAIN overrides
  /\ Listed(beta, "allowlist", last.context)
  /\ DefaultOf(beta) = Bool(FALSE)
  /\ last.outcome = Return(Bool(FALSE), "environment", beta)

(* C20. getEnvironment returns the label of the most recent                *)
(* setEnvironment, or the label the store was created with (NODE_ENV,      *)
(* else development): the store starts with that label, a setEnvironment   *)
(* step makes its argument the label and changes nothing else, no other    *)
(* step changes the label, and getEnvironment returns the label.  Every    *)
(* getFlag that comes to the environment tier selects the entry of the     *)
(* flag's table for that label.                                            *)
C20_LatestEnvironment ==
  [][/\ last.op = "createFlagStore" =>
          currentEnvironment
            = IF NODE_ENV \in DOMAIN processEnv THEN processEnv[NODE_ENV]
              ELSE development
     /\ last'.op = "setEnvironment" =>
          /\ currentEnvironment' = last'.env
          /\ getEnvironment' = [kind |-> "return", value |-> last'.env]
          /\ UNCHANGED <<definitions, processEnv, overrides>>
     /\ last'.op # "setEnvironment" => currentEnvironment' = currentEnvironment
     /\ last'.op = "getEnvironment" =>
          last'.outcome = [kind |-> "return", value |-> currentEnvironment]
     /\ (/\ last'.op = "getFlag"
         /\ Registered(last'.flagName)
         /\ last'.flagName \notin DOMAIN overrides
         /\ ~HasExternalConfig(last'.flagName)
         /\ HasEnvironmentEntry(last'.flagName)) =>
          last'.outcome
            = Return(definitions[last'.flagName]
                       .environments[currentEnvironment],
                     "environment", last'.flagName)]_vars

C20_Witness ==
  /\ IsGetFlag
  /\ last.flagName = beta
  /\ processEnv = <<>>
  /\ overrides = <<>>
  /\ currentEnvironment = staging
  /\ getEnvironment.value = staging
  /\ last.outcome = Return(Bool(TRUE), "environment", beta)


(* C21. getAllFlags(context) returns a mapping whose keys are exactly the  *)
(* registered flag names and whose value for each name is what             *)
(* getFlagValue returns for that name and the same context in the same     *)
(* state; it never raises, and an override stored under an unregistered    *)
(* name does not appear in it.                                             *)
C21_AllFlags ==
  last.op = "getAllFlags" =>
    /\ last.outcome.kind = "return"
    /\ DOMAIN last.outcome.value = DOMAIN definitions
    /\ \A n \in DOMAIN definitions :
         /\ getFlagValue(n, last.args[1]).kind = "return"
         /\ last.outcome.value[n] = getFlagValue(n, last.args[1]).value
    /\ \A n \in DOMAIN overrides :
         ~Registered(n) => n \notin DOMAIN last.outcome.value

C21_Witness ==
  /\ last.op = "getAllFlags"
  /\ last.args = <<[userId |-> u1]>>
  /\ overrides = ghost :> Bool(TRUE) @@ maxItems :> Num(0)
  /\ currentEnvironment = staging
  /\ processEnv = <<>>
  /\ last.outcome.value
       = (beta :> Bool(TRUE) @@ maxItems :> Num(0) @@ uiTheme :> Str(<<"a">>)
            @@ newDashboard :> Bool(TRUE))


(* C22. Stores are isolated: whatever setOverride, clearOverride,          *)
(* clearAllOverrides and setEnvironment calls are made on one store, the   *)
(* other store's getFlag, getAllFlags and getEnvironment results are what  *)
(* they were when the caller left it (or created it); the calls touch      *)
(* nothing of the other store.                                             *)
C22_StoresIsolated ==
  /\ last.op = "turn" => StoreResults = last.results
  /\ (otherStore.created /\ last.op = "createFlagStore") =>
       StoreResults = otherStore.results

C22_Witness ==
  /\ last.op = "turn"
  /\ overrides = <<>>
  /\ currentEnvironment = development
  /\ otherStore.overrides = beta :> Bool(TRUE)
  /\ otherStore.currentEnvironment = production
  /\ otherStore.results.getFlag[beta][Undefined].reason = "override"
  /\ getFlag(beta, Undefined) = Return(Bool(FALSE), "default", beta)


(* C23. No torn reads: each getFlag result and each whole getAllFlags      *)
(* result is the result computed from one state (overrides,                *)
(* currentEnvironment), the one that held from the start of the read to    *)
(* its end; the values getAllFlags has collected so far are all those of   *)
(* the state it started in.                                                *)
C23_NoTornReads ==
  /\ last.op = "getAllFlags" =>
       /\ last.started = StoreState
       /\ last.outcome = getAllFlags(last.args[1])
  /\ last.op = "getFlag" =>
       last.outcome = getFlag(last.flagName, last.context)
  /\ running.op = "getAllFlags" =>
       /\ running.started = StoreState
       /\ \A flagName \in DOMAIN running.result :
            running.result[flagName]
              = getFlagValue(flagName, running.context).value

C23_Witness ==
  /\ last.op = "getAllFlags"
  /\ last.args = <<[userId |-> u1]>>
  /\ overrides = beta :> Bool(FALSE)
  /\ currentEnvironment = production
  /\ DOMAIN last.outcome.value = {beta, maxItems, uiTheme, newDashboard}
  /\ last.outcome.value[beta] = Bool(FALSE)
  /\ last.outcome.value[maxItems] = Num(20)


(* C24. requireFlagEnabled(flagName, user) raises an error exactly when    *)
(* isEnabled(flagName, buildFlagContext(user)) is false in the current     *)
(* state of the store and returns normally when it is true; when isEnabled *)
(* itself raises (a name that is not registered) that error is the one     *)
(* raised.  In every case overrides and currentEnvironment are left as     *)
(* they were.                                                              *)
C24_RequireFlagEnabled ==
  last.op = "requireFlagEnabled" =>
    LET flagName == last.args[1]
        enabled == isEnabled(flagName, buildFlagContext(last.args[2]))
    IN  /\ last.before = StoreState
        /\ (enabled.kind = "return" /\ enabled.value = FALSE) =>
             last.outcome = NotEnabled(flagName)
        /\ (enabled.kind = "return" /\ enabled.value = TRUE) =>
             last.outcome = Void
        /\ enabled.kind = "throw" => last.outcome = enabled
        /\ enabled.kind = "return" =>
             (last.outcome.kind = "throw" <=> enabled.value = FALSE)

\* The guard lets u1 through and would stop a caller without a user
C24_Witness ==
  /\ last.op = "requireFlagEnabled"
  /\ last.args[1] = beta
  /\ last.args[2] = [id |-> u1]
  /\ last.outcome = Void
  /\ overrides = <<>>
  /\ processEnv = <<>>
  /\ currentEnvironment = development
  /\ requireFlagEnabled(beta, Null) = NotEnabled(beta)


(* C29. Server-built contexts: for a missing user (null or undefined) the  *)
(* context is empty and the helpers return what the store returns for no   *)
(* context, never a rollout, allowlist or blocklist result; for a user     *)
(* object the helpers return what the store returns for the context        *)
(* {userId: user.id}, so a list entry equal to the user's organizationId   *)
(* or email matches only when it equals user.id.                           *)
C29_ServerContexts ==
  last.op \in {"getFlagForUser", "isFlagEnabledForUser", "getFlagsForUser",
               "requireFlagEnabled"} =>
    LET user == last.args[Len(last.args)]
        flagName == last.args[1]
        missing == user \in {Undefined, Null}
        context == IF missing THEN Undefined ELSE [userId |-> user.id]
    IN  /\ missing => buildFlagContext(user) = <<>>
        /\ ~missing => /\ "userId" \in DOMAIN buildFlagContext(user)
                       /\ buildFlagContext(user).userId = user.id
        /\ last.op = "getFlagForUser" =>
             /\ last.outcome = getFlag(flagName, context)
             /\ (missing /\ last.outcome.kind = "return") =>
                  last.outcome.reason \notin RolloutReasons
             /\ (~missing /\ HasRollout(flagName)
                   /\ last.outcome.kind = "return"
                   /\ last.outcome.reason \in {"allowlist", "blocklist"}) =>
                  Includes(definitions[flagName].rollout,
                           last.outcome.reason, Str(user.id))
        /\ last.op = "isFlagEnabledForUser" =>
             last.outcome = isEnabled(flagName, context)
        /\ last.op = "getFlagsForUser" =>
             last.outcome = getAllFlags(context)
        /\ last.op = "requireFlagEnabled" =>
             (last.outcome.kind = "return"
                <=> isEnabled(flagName, context) = [kind |-> "return",
                                                    value |-> TRUE])

\* The user's organization is on the allowlist and the address on the
\* blocklist, and the flag falls to its default
C29_Witness ==
  /\ last.op = "getFlagForUser"
  /\ last.args[1] = beta
  /\ DOMAIN last.args[2] = {"id", "email", "organizationId"}
  /\ last.args[2].id = u4
  /\ last.args[2].email = mail
  /\ last.args[2].organizationId = o1
  /\ currentEnvironment = development
  /\ overrides = <<>>
  /\ processEnv = <<>>
  /\ last.outcome = Return(Bool(FALSE), "default", beta)
  /\ getFlag(beta, [organizationId |-> o1]).reason = "allowlist"
  /\ getFlag(beta, [email |-> mail]).reason = "blocklist"


(* C25. For every registered flag, context and state of the store,        *)
(* getFlagValue returns the value field of getFlag for the same arguments  *)
(* and isEnabled returns the boolean coercion of that value: false for     *)
(* false, 0, the empty string, NaN and undefined, true for every other     *)
(* value, whatever the type of the flag.                                   *)
C25_ValueAndCoercion ==
  (last.op \in {"getFlagValue", "isEnabled"} /\ Registered(last.args[1])) =>
    LET result == getFlag(last.args[1], last.args[2])
        falsy == {Bool(FALSE), Num(0), Str(<<>>), NaN, Undefined}
    IN  /\ result.kind = "return"
        /\ last.outcome.kind = "return"
        /\ last.op = "getFlagValue" => last.outcome.value = result.value
        /\ last.op = "isEnabled" =>
             /\ last.outcome.value \in BOOLEAN
             /\ last.outcome.value = (result.value \notin falsy)

\* A string flag whose value is the empty string is not enabled, and a
\* number flag at 10 is
C25_Witness ==
  /\ last.op = "isEnabled"
  /\ last.args[1] = uiTheme
  /\ last.outcome = [kind |-> "return", value |-> FALSE]
  /\ overrides = uiTheme :> Str(<<>>)
  /\ processEnv = <<>>
  /\ currentEnvironment = development
  /\ isEnabled(maxItems, Undefined) = [kind |-> "return", value |-> TRUE]
  /\ getFlagValue(maxItems, Undefined) = [kind |-> "return", value |-> Num(10)]


(* C26. Mutator frame and idempotence: setOverride(f, v) changes only the  *)
(* overrides entry of f, and a getFlag result of another flag obtained     *)
(* just before it is obtained again after it; clearOverride(f) removes     *)
(* only f's entry and changes nothing when f has none; clearAllOverrides   *)
(* empties the map; setEnvironment changes only currentEnvironment; none   *)
(* changes the registry or the process environment; and a mutator called   *)
(* again with the same arguments leaves the store as the first call left   *)
(* it.                                                                     *)
C26_MutatorFrame ==
  [][/\ last'.op \in OverrideMutators \cup {"setEnvironment"} =>
          /\ definitions' = definitions
          /\ processEnv' = processEnv
     /\ last'.op = "setOverride" =>
          /\ DOMAIN overrides' = DOMAIN overrides \cup {last'.flagName}
          /\ overrides'[last'.flagName] = last'.value
          /\ \A name \in DOMAIN overrides \ {last'.flagName} :
               overrides'[name] = overrides[name]
          /\ currentEnvironment' = currentEnvironment
     /\ last'.op = "clearOverride" =>
          /\ DOMAIN overrides' = DOMAIN overrides \ {last'.flagName}
          /\ \A name \in DOMAIN overrides' : overrides'[name] = overrides[name]
          /\ last'.flagName \notin DOMAIN overrides => overrides' = overrides
          /\ currentEnvironment' = currentEnvironment
     /\ last'.op = "clearAllOverrides" =>
          /\ overrides' = <<>>
          /\ currentEnvironment' = currentEnvironment
     /\ last'.op = "setEnvironment" =>
          /\ currentEnvironment' = last'.env
          /\ overrides' = overrides
     /\ (last'.op \in {"setOverride", "clearOverride"} /\ last.op = "getFlag") =>
          \A flagName \in ReadFlagNames : \A context \in ReadContexts :
            (/\ flagName = last.flagName
             /\ context = last.context
             /\ flagName # last'.flagName) =>
              getFlag(flagName, context)' = last.outcome
     /\ (/\ last'.op = last.op
         /\ \/ /\ last.op = "setOverride"
               /\ last'.flagName = last.flagName
               /\ last'.value = last.value
            \/ /\ last.op = "clearOverride"
               /\ last'.flagName = last.flagName
            \/ last.op = "clearAllOverrides"
            \/ /\ last.op = "setEnvironment"
               /\ last'.env = last.env) =>
          StoreState' = StoreState
    ]_vars

\* setOverride has been called on a flag that had an override, beside the
\* override of another flag
C26_Witness ==
  /\ last.op = "setOverride"
  /\ last.flagName = beta
  /\ last.had
  /\ overrides = beta :> Bool(TRUE) @@ maxItems :> Num(0) @@ ghost :> Bool(TRUE)
  /\ currentEnvironment = staging


(* C27. Result well-formedness in every reachable state, for a registered *)
(* flag: the returned flagName is the requested name; reason default or    *)
(* blocklist implies value = defaultValue; reason allowlist or rollout     *)
(* implies the enabled value (true for boolean flags, defaultValue         *)
(* otherwise) and a context with a non-empty identifier; reason            *)
(* environment implies that value is the entry of the environments table   *)
(* for currentEnvironment and that there is no runtime override and no     *)
(* external-config value; reason override implies that one of the two      *)
(* exists.                                                                 *)
C27_WellFormed ==
  (IsGetFlag /\ Registered(last.flagName)) =>
    LET flagName == last.flagName
        result == last.outcome
    IN  /\ result.kind = "return"
        /\ result.flagName = flagName
        /\ result.reason \in Reasons
        /\ result.reason \in {"default", "blocklist"} =>
             result.value = DefaultOf(flagName)
        /\ result.reason \in {"allowlist", "rollout"} =>
             /\ result.value = EnabledOf(flagName)
             /\ identifierOf(last.context).type = "string"
             /\ identifierOf(last.context).s # <<>>
        /\ result.reason = "environment" =>
             /\ HasEnvironmentEntry(flagName)
             /\ result.value = definitions[flagName].environments[currentEnvironment]
             /\ flagName \notin DOMAIN overrides
             /\ ~HasExternalConfig(flagName)
        /\ result.reason = "override" =>
             flagName \in DOMAIN overrides \/ HasExternalConfig(flagName)


\* A context with the field or without it
FieldOptions(field, values) == {<<>>} \cup {field :> value : value \in values}

\* Contexts over the given identifiers, with and without environment and
\* attributes
ContextsOver(ids) ==
  { userId @@ organizationId @@ email @@ environment @@ attributes :
      userId \in FieldOptions("userId", ids),
      organizationId \in FieldOptions("organizationId", ids),
      email \in FieldOptions("email", ids),
      environment \in FieldOptions("environment", {staging, production}),
      attributes \in FieldOptions("attributes", {[plan |-> <<"p", "r", "o">>]}) }

\* The identifier of the last call's context, and another one
IdentifiersWith(context) ==
  {u2} \cup (IF FirstPresent(context) = Undefined THEN {}
             ELSE {FirstPresent(context).s})

(* C28. Fields of the context other than the identifier do not influence  *)
(* evaluation: getFlag returns the same result, in the same state, for     *)
(* every context whose first present of userId, organizationId and email   *)
(* is the same, whatever field carries it and whatever the later fields,   *)
(* environment and attributes are; a result with reason environment is     *)
(* the entry for the store's currentEnvironment.                           *)
C28_OnlyIdentifierCounts ==
  IsGetFlag =>
    /\ \A other \in ContextsOver(IdentifiersWith(last.context)) :
         FirstPresent(other) = FirstPresent(last.context) =>
           getFlag(last.flagName, other) = last.outcome
    /\ (last.outcome.kind = "return" /\ last.outcome.reason = "environment") =>
         /\ HasEnvironmentEntry(last.flagName)
         /\ last.outcome.value
              = definitions[last.flagName].environments[currentEnvironment]

\* A context that names production, in a store set to development
C28_Witness ==
  /\ IsGetFlag
  /\ last.flagName = beta
  /\ last.context = [userId |-> u4, environment |-> staging]
  /\ currentEnvironment = development
  /\ definitions[beta].rollout.percentage = 60
  /\ last.outcome = Return(Bool(TRUE), "rollout", beta)
  /\ getFlag(beta, [email |-> u4, environment |-> production,
                    attributes |-> [plan |-> <<"p", "r", "o">>]])
       = last.outcome


(* C30. Hook results are memoised on (flagName, context) only: a render   *)
(* with the same flagName and the same provider context object returns     *)
(* the result of the last evaluation, whatever setOverride, clearOverride  *)
(* and setEnvironment did to the store since, and these calls do not touch *)
(* the memoised result; a render after a change of flagName or of the      *)
(* context object returns the result evaluated in the store as it is.      *)
C30_MemoisedOnDeps ==
  [][/\ last'.op \in OverrideMutators \cup {"setEnvironment"} => memo' = memo
     /\ (last'.op = "render" /\ memo.mounted) =>
          IF /\ memo.provided
             /\ memo.object = 0
             /\ SameProps(memo.hook, last'.flagName)
          THEN /\ last'.outcome = memo.value
               /\ memo'.value = memo.value
               /\ ~last'.recomputed
          ELSE /\ last'.recomputed
               /\ \A flagName \in HookFlagNames :
                    flagName = last'.flagName =>
                      last'.outcome
                        = Evaluate(memo.hook, flagName, memo.context)
    ]_vars

\* The hook returns a result the store no longer gives
C30_Witness ==
  /\ last.op = "render"
  /\ ~last.recomputed
  /\ memo.hook = "useFlag"
  /\ memo.flagName = beta
  /\ memo.context = [userId |-> u1]
  /\ last.outcome = Return(Bool(TRUE), "allowlist", beta)
  /\ overrides = beta :> Bool(FALSE)
  /\ getFlag(beta, memo.context) = Return(Bool(FALSE), "override", beta)


====
